---- MODULE Spec2Model ----
(***************************************************************************)
(* Model of the logging core of fastApiTutorial:                           *)
(*   src/app/core/config.py   LoggerSettings and its parsers               *)
(*   src/app/core/logging.py  formatters, handlers and get_logger          *)
(* Python strings are sequences of one-character strings, so that upper(), *)
(* lower(), strip(), split(), isdigit() and int() are computed, not        *)
(* assumed.                                                                *)
(***************************************************************************)
EXTENDS Integers, Sequences, FiniteSets, TLC

VARIABLES
    raw,        \* the raw key/value input LoggerSettings was constructed from
    loaded,     \* "unloaded" | "ok" | "ValidationError": outcome of construction
    settings,   \* the module-level logger_settings object (config.py:205)
    rot,        \* outcome of the last parse_rotation() call
    ret,        \* outcome of the last parse_retention(rotation_when) call
    loggers,    \* the logging module's registry: name -> [level, handlers]
    root,       \* the root logger: [level, handlers]
    nextId,     \* the number of handler objects constructed so far
    emitted,    \* the last emit: [name, sev, msg, accepted] (or the idle record)
    out,        \* the lines the last emit wrote, in write order
    fcall,      \* the last get_formatter / Formatter.format call and its result
    fs,         \* the directories that exist on disk
    hcall,      \* the last get_file_handler / get_syslog_handler call and its outcome
    delivery,   \* the last emit with failing sinks: [broken, raised]
    rotated,    \* the rotated log files on disk, oldest first, and the rollover count
    rebuild,    \* the get_logger call in progress, statement by statement
    req,        \* the log_requests call in progress and what it has done so far
    store,      \* the todos collection in find_all order, and the documents saved so far
    bg,         \* the background tasks the last service call scheduled
    tcall       \* the last todo service call and its answer

\* The state of formatter calls, handler construction and sink failures
\* The state of file rotation, stepwise logger assembly, the request
\* middleware and the todo services
ext2 == <<rotated, rebuild, req, store, bg, tcall>>

ext == <<fcall, fs, hcall, delivery, ext2>>

vars == <<raw, loaded, settings, rot, ret, loggers, root, nextId, emitted, out, ext>>

(***************************************************************************)
(* Bounds of the model.                                                    *)
(***************************************************************************)
MaxLen == 3         \* longest rotation / retention string enumerated
MaxCalls == 3       \* get_logger calls made in one run
MaxRollovers == 9
MaxTodos == 3

(***************************************************************************)
(* Python str primitives.                                                  *)
(***************************************************************************)
Uppers == <<"A","B","C","D","E","F","G","H","I","J","K","L","M",
            "N","O","P","Q","R","S","T","U","V","W","X","Y","Z">>
Lowers == <<"a","b","c","d","e","f","g","h","i","j","k","l","m",
            "n","o","p","q","r","s","t","u","v","w","x","y","z">>

\* str.upper() / str.lower() on one character
UpperChar(c) ==
    IF \E i \in 1..26 : Lowers[i] = c
    THEN Uppers[CHOOSE i \in 1..26 : Lowers[i] = c]
    ELSE c

LowerChar(c) ==
    IF \E i \in 1..26 : Uppers[i] = c
    THEN Lowers[CHOOSE i \in 1..26 : Uppers[i] = c]
    ELSE c

Upper(s) == [i \in 1..Len(s) |-> UpperChar(s[i])]
Lower(s) == [i \in 1..Len(s) |-> LowerChar(s[i])]

IsSpace(c) == c \in {" ", "\t", "\n"}

RECURSIVE LStrip(_)
LStrip(s) == IF s # <<>> /\ IsSpace(Head(s)) THEN LStrip(Tail(s)) ELSE s

RECURSIVE RStrip(_)
RStrip(s) ==
    IF s # <<>> /\ IsSpace(s[Len(s)]) THEN RStrip(SubSeq(s, 1, Len(s) - 1)) ELSE s

\* str.strip()
Strip(s) == RStrip(LStrip(s))

\* The decimal digits int() accepts, with their values.
DecimalDigits == <<"0","1","2","3","4","5","6","7","8","9">>
IsDecimal(c) == \E i \in 1..10 : DecimalDigits[i] = c
DigitValue(c) == (CHOOSE i \in 1..10 : DecimalDigits[i] = c) - 1

\* Characters for which str.isdigit() is true but which are no decimal
\* digit (Unicode category No, e.g. SUPERSCRIPT TWO, written "^2" here).
OtherDigits == {"^2"}

\* str.isdigit(): non-empty and every character a digit
IsDigit(s) == s # <<>> /\ \A i \in 1..Len(s) : IsDecimal(s[i]) \/ s[i] \in OtherDigits

\* int(s) raises ValueError unless every character is a decimal digit
IntRaises(s) == s = <<>> \/ \E i \in 1..Len(s) : ~IsDecimal(s[i])

RECURSIVE IntOf(_)
IntOf(s) ==
    IF s = <<>> THEN 0
    ELSE 10 * IntOf(SubSeq(s, 1, Len(s) - 1)) + DigitValue(s[Len(s)])

\* s.split(sep) for a one-character separator
RECURSIVE SplitAcc(_, _, _)
SplitAcc(s, sep, cur) ==
    IF s = <<>> THEN <<cur>>
    ELSE IF Head(s) = sep THEN <<cur>> \o SplitAcc(Tail(s), sep, <<>>)
    ELSE SplitAcc(Tail(s), sep, Append(cur, Head(s)))

Split(s, sep) == SplitAcc(s, sep, <<>>)

(***************************************************************************)
(* Python values as the validators see them: a tagged value whose payload  *)
(* is a string (s) or a list of strings (l).                               *)
(***************************************************************************)
PyNone == [t |-> "none", s |-> <<>>, l |-> <<>>]
PyStr(s) == [t |-> "str", s |-> s, l |-> <<>>]
PyList(l) == [t |-> "list", s |-> <<>>, l |-> l]
PyInt == [t |-> "int", s |-> <<>>, l |-> <<>>]
PyPath(s) == [t |-> "path", s |-> s, l |-> <<>>]

\* Python truthiness of an optional string (`if not self.rotation`)
Truthy(v) == v.t # "none" /\ ~(v.t = "str" /\ v.s = <<>>)

(***************************************************************************)
(* LoggerSettings (config.py:52-172)                                       *)
(***************************************************************************)
LevelNames == {
    <<"C","R","I","T","I","C","A","L">>, <<"E","R","R","O","R">>,
    <<"W","A","R","N","I","N","G">>, <<"I","N","F","O">>,
    <<"D","E","B","U","G">>, <<"N","O","T","S","E","T">> }

FormatNames == { <<"j","s","o","n">>, <<"t","e","x","t">>, <<"c","s","v">> }

Console == <<"c","o","n","s","o","l","e">>
File == <<"f","i","l","e">>
Syslog == <<"s","y","s","l","o","g">>
HandlerNames == {Console, File, Syslog}

\* _normalize_level without the case folding
normalize_level_identity(v) == v

\* config.py:93-98
_normalize_level(v) == IF v.t = "str" THEN PyStr(Upper(v.s)) ELSE v

RECURSIVE StripAll(_)
StripAll(parts) ==
    IF parts = <<>> THEN <<>>
    ELSE LET h == Strip(Head(parts))
         IN  (IF h # <<>> THEN <<h>> ELSE <<>>) \o StripAll(Tail(parts))

\* _parse_handlers keeping the segments untrimmed
parse_handlers_untrimmed(v) ==
    IF v.t = "str" THEN PyList(SelectSeq(Split(v.s, ","), LAMBDA h : h # <<>>))
    ELSE IF v.t = "list" THEN v ELSE PyList(<<>>)

\* config.py:100-106
_parse_handlers(v) ==
    IF v.t = "str" THEN PyList(StripAll(Split(v.s, ",")))
    ELSE IF v.t = "list" THEN v ELSE PyList(<<>>)

\* config.py:108-115
_pathify(v) ==
    IF v.t = "str" /\ Strip(v.s) # <<>> THEN PyPath(v.s)
    ELSE IF v.t = "path" THEN v
    ELSE PyNone

\* The field types the validated values must have (config.py:56-78):
\* Literal membership for level and format, list[Literal] | str for handlers,
\* str | None for rotation and retention.
LevelValid(v) == v.t = "str" /\ v.s \in LevelNames
FormatValid(v) == v.t = "str" /\ v.s \in FormatNames
HandlersValid(v) ==
    \/ v.t = "list" /\ \A i \in 1..Len(v.l) : v.l[i] \in HandlerNames
    \/ v.t = "str"
OptStrValid(v) == v.t \in {"str", "none"}

\* The value of each field after its mode="before" validator
Normalized(r) ==
    [ level     |-> _normalize_level(r.level),
      format    |-> r.format,
      file      |-> _pathify(r.file),
      retention |-> r.retention,
      rotation  |-> r.rotation,
      handlers  |-> _parse_handlers(r.handlers) ]

\* LoggerSettings(**r) raises pydantic.ValidationError
ConstructionFails(r) ==
    LET n == Normalized(r)
    IN  ~( /\ LevelValid(n.level) /\ FormatValid(n.format)
           /\ HandlersValid(n.handlers)
           /\ OptStrValid(n.retention) /\ OptStrValid(n.rotation) )

\* config.py:71-73
get_default_handlers == <<Console>>

\* The ordinals of the logging module named at config.py:119-126
CRITICAL == 50
ERROR == 40
WARNING == 30
INFO == 20
DEBUG == 10
NOTSET == 0

\* config.py:117-127
get_log_level_int(self) ==
    LET lv == self.level.s
    IN  CASE lv = <<"C","R","I","T","I","C","A","L">> -> CRITICAL
          [] lv = <<"E","R","R","O","R">> -> ERROR
          [] lv = <<"W","A","R","N","I","N","G">> -> WARNING
          [] lv = <<"I","N","F","O">> -> INFO
          [] lv = <<"D","E","B","U","G">> -> DEBUG
          [] lv = <<"N","O","T","S","E","T">> -> NOTSET
          [] OTHER -> INFO

Units == {"s", "m", "h", "d", "w"}

Returned(when, n) == [raised |-> FALSE, when |-> when, n |-> n]
ValueError == [raised |-> TRUE, when |-> "", n |-> 0]
NotCalled == [raised |-> FALSE, when |-> "", n |-> -1]

\* config.py:139 and config.py:168: the shape check shared by both parsers
ShapeRejected(s) ==
    s = <<>> \/ ~IsDigit(SubSeq(s, 1, Len(s) - 1)) \/ s[Len(s)] \notin Units

\* parse_rotation without the trimming and lowercasing of config.py:138
parse_rotation_raw(self) ==
    IF ~Truthy(self.rotation) THEN Returned("D", 1)
    ELSE LET s == self.rotation.s
         IN  IF ShapeRejected(s) THEN Returned("D", 1)
             ELSE LET digits == SubSeq(s, 1, Len(s) - 1)
                      unit == s[Len(s)]
                  IN  IF IntRaises(digits) THEN ValueError
                      ELSE LET n == IntOf(digits)
                           IN  CASE unit = "s" -> Returned("S", n)
                                 [] unit = "m" -> Returned("M", n)
                                 [] unit = "h" -> Returned("H", n)
                                 [] unit = "d" -> Returned("D", n)
                                 [] unit = "w" -> Returned("W0", n)
                                 [] OTHER -> Returned("D", 1)

\* config.py:129-156
parse_rotation(self) ==
    IF ~Truthy(self.rotation) THEN Returned("D", 1)
    ELSE LET s == Lower(Strip(self.rotation.s))
         IN  IF ShapeRejected(s) THEN Returned("D", 1)
             ELSE LET digits == SubSeq(s, 1, Len(s) - 1)
                      unit == s[Len(s)]
                  IN  IF IntRaises(digits) THEN ValueError
                      ELSE LET n == IntOf(digits)
                           IN  CASE unit = "s" -> Returned("S", n)
                                 [] unit = "m" -> Returned("M", n)
                                 [] unit = "h" -> Returned("H", n)
                                 [] unit = "d" -> Returned("D", n)
                                 [] unit = "w" -> Returned("W0", n)
                                 [] OTHER -> Returned("D", 1)

\* config.py:158-172
parse_retention(self, rotation_when) ==
    IF ~Truthy(self.retention) THEN Returned("", 7)
    ELSE LET s == Lower(Strip(self.retention.s))
         IN  IF ShapeRejected(s) THEN Returned("", 7)
             ELSE LET digits == SubSeq(s, 1, Len(s) - 1)
                  IN  IF IntRaises(digits) THEN ValueError
                      ELSE Returned("", IntOf(digits))


(***************************************************************************)
(* The logging module as get_logger and its callers use it                 *)
(* (logging.py:93-158).  A handler is [kind, fmt, id]; id tells handler    *)
(* objects apart.                                                          *)
(***************************************************************************)
App == <<"a","p","p">>
AppMw == <<"a","p","p",".","m","w">>
Names == {App, AppMw}

RootName == <<"r","o","o","t">>

Severities == {DEBUG, INFO, WARNING, ERROR, CRITICAL}

DiskLow == <<"d","i","s","k"," ","l","o","w">>
Quoted == <<"a","\"","b">>
Messages == {DiskLow, Quoted}

Handler(kind, fmt, id) == [kind |-> kind, fmt |-> fmt, id |-> id]

\* get_formatter comparing format_type without lower()
get_formatter_exact(format_type) ==
    IF format_type = <<"j","s","o","n">> THEN "json"
    ELSE IF format_type = <<"c","s","v">> THEN "csv"
    ELSE "text"

\* logging.py:82-90
get_formatter(format_type) ==
    IF Lower(format_type) = <<"j","s","o","n">> THEN "json"
    ELSE IF Lower(format_type) = <<"c","s","v">> THEN "csv"
    ELSE "text"

\* get_console_handler returning one module-level handler object
get_console_handler_shared(s, id) == Handler("console", get_formatter(s.format.s), 1)

\* logging.py:93-97
get_console_handler(s, id) == Handler("console", get_formatter(s.format.s), id)

\* logging.py:100-123: None (the empty sequence) when no file is configured
get_file_handler(s, id) ==
    IF s.file.t = "none" THEN <<>>
    ELSE <<Handler("file", get_formatter(s.format.s), id)>>

\* logging.py:126-134
get_syslog_handler(s, id) == Handler("syslog", get_formatter(s.format.s), id)

\* get_logger iterating over the configured handlers, without a fallback
HandlerTypes_configured(s) == s.handlers.l

\* The list a get_logger call iterates over (logging.py:148)
HandlerTypes(s) == get_default_handlers

\* logging.py:148-156: the handlers the loop attaches, in order; the k-th
\* handler built by the call has id id0 + k.
RECURSIVE BuildHandlers(_, _, _)
BuildHandlers(types, s, id0) ==
    IF types = <<>> THEN <<>>
    ELSE LET ty == Head(types)
             built == CASE ty = Console -> <<get_console_handler(s, id0 + 1)>>
                        [] ty = File -> get_file_handler(s, id0 + 1)
                        [] ty = Syslog -> <<get_syslog_handler(s, id0 + 1)>>
                        [] OTHER -> <<>>
         IN  built \o BuildHandlers(Tail(types), s, id0 + 1)

\* logging.py:141-142: every handler of the copied list is removed
RemoveHandlers(hs) == SelectSeq(hs, LAMBDA h : FALSE)

\* logging.py:139-158: the logger record a get_logger call leaves behind
ConfiguredLogger(old, s, id0) ==
    [ exists    |-> TRUE,
      level     |-> get_log_level_int(s),
      handlers  |-> RemoveHandlers(old.handlers) \o BuildHandlers(HandlerTypes(s), s, id0),
      calls     |-> old.calls + 1 ]

\* get_logger reconfiguring every logger that exists, not only the named one
Configure_all(ls, name, s, id0) ==
    [n \in DOMAIN ls |->
        IF n = name \/ ls[n].exists THEN ConfiguredLogger(ls[n], s, id0) ELSE ls[n]]

\* logging.py:139-158: get_logger(name) touches the logger logging.getLogger(name)
\* returns and no other
Configure(ls, name, s, id0) == [ls EXCEPT ![name] = ConfiguredLogger(@, s, id0)]

NewLogger == [exists |-> FALSE, level |-> NOTSET, handlers |-> <<>>, calls |-> 0]

\* a is a proper dotted ancestor of n in the logger hierarchy
IsAncestor(a, n) ==
    Len(a) < Len(n) /\ SubSeq(n, 1, Len(a)) = a /\ n[Len(a) + 1] = "."

\* The existing ancestors of n, nearest first: the chain Logger.parent follows
ExistingAncestors(n) ==
    {a \in Names : IsAncestor(a, n) /\ loggers[a].exists}

RECURSIVE EffectiveFrom(_, _)
\* logging.Logger.getEffectiveLevel, from logger n with ancestors anc left
EffectiveFrom(n, anc) ==
    IF loggers[n].level # NOTSET THEN loggers[n].level
    ELSE IF anc = {} THEN root.level
    ELSE LET p == CHOOSE a \in anc : \A b \in anc : Len(b) <= Len(a)
         IN  EffectiveFrom(p, anc \ {p})

getEffectiveLevel(n) == EffectiveFrom(n, ExistingAncestors(n))

\* logging.Logger.isEnabledFor
isEnabledFor(n, sev) == sev >= getEffectiveLevel(n)

getLevelName(sev) ==
    CASE sev = CRITICAL -> <<"C","R","I","T","I","C","A","L">>
      [] sev = ERROR -> <<"E","R","R","O","R">>
      [] sev = WARNING -> <<"W","A","R","N","I","N","G">>
      [] sev = INFO -> <<"I","N","F","O">>
      [] sev = DEBUG -> <<"D","E","B","U","G">>
      [] OTHER -> <<"N","O","T","S","E","T">>

\* The rendered timestamp of a record
Timestamp == <<"T">>

Sep == <<" ", "|", " ">>

\* f"{levelname:<8}"
PadRight(s, w) == s \o [i \in 1..(IF Len(s) < w THEN w - Len(s) ELSE 0) |-> " "]

\* logging.py:66-79; rec.exc is the formatted exception, empty when the
\* record carries no exc_info
TextFormat(rec) ==
    Timestamp \o Sep \o PadRight(getLevelName(rec.sev), 8) \o Sep
        \o rec.name \o Sep \o rec.msg
        \o (IF rec.exc # <<>> THEN <<"\n">> \o rec.exc ELSE <<>>)

RECURSIVE DoubleQuotes(_)
\* str.replace('"', '""')
DoubleQuotes(s) ==
    IF s = <<>> THEN <<>>
    ELSE (IF Head(s) = "\"" THEN <<"\"", "\"">> ELSE <<Head(s)>>)
             \o DoubleQuotes(Tail(s))

Q == <<"\"">>

\* logging.py:46-56
CsvFormat(rec) ==
    Q \o Timestamp \o Q \o <<",">> \o Q \o getLevelName(rec.sev) \o Q \o <<",">>
      \o Q \o rec.name \o Q \o <<",">> \o Q \o DoubleQuotes(rec.msg) \o Q

RECURSIVE JsonEscape(_)
\* json.dumps of a str: quote and backslash are escaped
JsonEscape(s) ==
    IF s = <<>> THEN <<>>
    ELSE (IF Head(s) \in {"\"", "\\"} THEN <<"\\", Head(s)>> ELSE <<Head(s)>>)
             \o JsonEscape(Tail(s))

JsonStr(s) == Q \o JsonEscape(s) \o Q

JsonPair(k, v) == JsonStr(k) \o <<":", " ">> \o v

\* JsonFormatter.format without the exception branch of logging.py:32-33
JsonFormat_no_exception(rec) ==
    <<"{">> \o JsonPair(<<"t","i","m","e","s","t","a","m","p">>, JsonStr(Timestamp))
      \o <<",", " ">> \o JsonPair(<<"l","e","v","e","l">>, JsonStr(getLevelName(rec.sev)))
      \o <<",", " ">> \o JsonPair(<<"n","a","m","e">>, JsonStr(rec.name))
      \o <<",", " ">> \o JsonPair(<<"m","e","s","s","a","g","e">>, JsonStr(rec.msg))
      \o <<",", " ">> \o JsonPair(<<"m","o","d","u","l","e">>, JsonStr(<<"m">>))
      \o <<",", " ">> \o JsonPair(<<"l","i","n","e">>, <<"1">>)
      \o <<"}">>

\* logging.py:18-36
JsonFormat(rec) ==
    <<"{">> \o JsonPair(<<"t","i","m","e","s","t","a","m","p">>, JsonStr(Timestamp))
      \o <<",", " ">> \o JsonPair(<<"l","e","v","e","l">>, JsonStr(getLevelName(rec.sev)))
      \o <<",", " ">> \o JsonPair(<<"n","a","m","e">>, JsonStr(rec.name))
      \o <<",", " ">> \o JsonPair(<<"m","e","s","s","a","g","e">>, JsonStr(rec.msg))
      \o <<",", " ">> \o JsonPair(<<"m","o","d","u","l","e">>, JsonStr(<<"m">>))
      \o <<",", " ">> \o JsonPair(<<"l","i","n","e">>, <<"1">>)
      \o (IF rec.exc # <<>>
          THEN <<",", " ">> \o JsonPair(<<"e","x","c","e","p","t","i","o","n">>, JsonStr(rec.exc))
          ELSE <<>>)
      \o <<"}">>

Dash == <<" ", "-", " ">>

\* main.py:21: "%(asctime)s - %(name)s - %(levelname)s - %(message)s"
BasicFormat(rec) ==
    Timestamp \o Dash \o rec.name \o Dash \o getLevelName(rec.sev) \o Dash \o rec.msg

\* logging.Handler.format: the handler's formatter renders the record
Render(h, rec) ==
    CASE h.fmt = "json" -> JsonFormat(rec)
      [] h.fmt = "csv" -> CsvFormat(rec)
      [] h.fmt = "text" -> TextFormat(rec)
      [] OTHER -> BasicFormat(rec)

\* One written line per handler of hs, in order (handlers keep level NOTSET)
Lines(owner, hs, rec) ==
    [i \in 1..Len(hs) |->
        [owner |-> owner, kind |-> hs[i].kind, id |-> hs[i].id, line |-> Render(hs[i], rec)]]

RECURSIVE AncestorLines(_, _)
AncestorLines(anc, rec) ==
    IF anc = {} THEN <<>>
    ELSE LET p == CHOOSE a \in anc : \A b \in anc : Len(b) <= Len(a)
         IN  Lines(p, loggers[p].handlers, rec) \o AncestorLines(anc \ {p}, rec)

\* callHandlers of a logger whose propagate flag is False: its own handlers only
callHandlers_no_propagate(n, rec) == Lines(n, loggers[n].handlers, rec)

\* logging.Logger.callHandlers: the logger's own handlers, then (propagate those of every ancestor up to the root
\* is left True) those of every ancestor up to the root; when the chain holds
\* no handler at all, logging.lastResort (stderr, level WARNING) is used
callHandlers(n, rec) ==
    LET found == Lines(n, loggers[n].handlers, rec)
                    \o AncestorLines(ExistingAncestors(n), rec)
                    \o Lines(RootName, root.handlers, rec)
    IN  IF found = <<>> /\ rec.sev >= WARNING
        THEN <<[owner |-> <<>>, kind |-> "stderr", id |-> 0, line |-> rec.msg]>>
        ELSE found

Idle == [name |-> <<>>, sev |-> NOTSET, msg |-> <<>>, accepted |-> FALSE]

(***************************************************************************)
(* Actions                                                                 *)
(***************************************************************************)
NoRecord == [name |-> <<>>, sev |-> NOTSET, msg |-> <<>>, exc |-> <<>>]
NoFormat == [op |-> "none", arg |-> <<>>, kind |-> "", rec |-> NoRecord, line |-> <<>>]
NoEnv == [first |-> 0, second |-> TRUE]
NotBuilt == [call |-> "none", outcome |-> "none", ops |-> <<>>, handler |-> <<>>, env |-> NoEnv]

\* get_formatter(format_type) called with an arbitrary string
GetFormatter(format_type) ==
    /\ fcall' = [op |-> "get_formatter", arg |-> format_type,
               kind |-> get_formatter(format_type), rec |-> NoRecord, line |-> <<>>]
    /\ UNCHANGED <<raw, loaded, settings, rot, ret, loggers, root, nextId, emitted, out,
                   fs, hcall, delivery, ext2>>

\* formatter.format(record) on the formatter get_formatter(kind) returned
Format(kind, rec) ==
    /\ fcall' = [op |-> "format", arg |-> <<>>, kind |-> kind, rec |-> rec,
               line |-> Render([fmt |-> kind], rec)]
    /\ UNCHANGED <<raw, loaded, settings, rot, ret, loggers, root, nextId, emitted, out,
                   fs, hcall, delivery, ext2>>

NoSettings ==
    [level |-> PyNone, format |-> PyNone, file |-> PyNone,
     retention |-> PyNone, rotation |-> PyNone, handlers |-> PyNone]

RawRecord(lv, fm, fl, rt, ro, hs) ==
    [level |-> lv, format |-> fm, file |-> fl,
     retention |-> rt, rotation |-> ro, handlers |-> hs]

\* logger_settings = LoggerSettings() (config.py:205) on the raw input r
Construct(r) ==
    /\ loaded = "unloaded"
    /\ raw' = r
    /\ IF ConstructionFails(r)
       THEN loaded' = "ValidationError" /\ settings' = NoSettings
       ELSE loaded' = "ok" /\ settings' = Normalized(r)
    /\ UNCHANGED <<rot, ret, loggers, root, nextId, emitted, out, ext>>

\* Module import: the one construction of logger_settings, on a raw input
\* drawn from inputs
LoadSettings(inputs) ==
    /\ loaded = "unloaded"
    /\ \E r \in inputs : Construct(r)

\* logger_settings.parse_rotation()
ParseRotation ==
    /\ loaded = "ok"
    /\ rot' = parse_rotation(settings)
    /\ UNCHANGED <<raw, loaded, settings, ret, loggers, root, nextId, emitted, out, ext>>

Whens == {"S", "M", "H", "D", "W0"}

\* logger_settings.parse_retention(when)
ParseRetention(when) ==
    /\ loaded = "ok"
    /\ ret' = [parse_retention(settings, when) EXCEPT !.when = when]
    /\ UNCHANGED <<raw, loaded, settings, rot, loggers, root, nextId, emitted, out, ext>>

\* get_logger(name) (logging.py:137-158)
GetLogger(name) ==
    /\ loaded = "ok"
    /\ loggers[App].calls + loggers[AppMw].calls < MaxCalls
    /\ loggers' = Configure(loggers, name, settings, nextId)
    /\ nextId' = nextId + Len(HandlerTypes(settings))
    /\ emitted' = Idle
    /\ out' = <<>>
    /\ UNCHANGED <<raw, loaded, settings, rot, ret, root, ext>>

\* logging.basicConfig(level=INFO, handlers=[stdout, all_logs.log]) (main.py:18-26);
\* a no-op once the root logger has handlers
BasicConfig ==
    /\ root.handlers = <<>>
    /\ root' = [level |-> INFO,
                handlers |-> << Handler("console", "basic", 0),
                                Handler("file", "basic", 0) >>]
    /\ UNCHANGED <<raw, loaded, settings, rot, ret, loggers, nextId, emitted, out, ext>>

\* logger.debug/info/warning/error/critical(msg) on a logger get_logger returned
Emit(name, sev, msg) ==
    /\ loggers[name].exists
    /\ LET rec == [name |-> name, sev |-> sev, msg |-> msg, exc |-> <<>>]
           ok == isEnabledFor(name, sev)
       IN  /\ emitted' = [name |-> name, sev |-> sev, msg |-> msg, accepted |-> ok]
           /\ out' = IF ok THEN callHandlers(name, rec) ELSE <<>>
    /\ UNCHANGED <<raw, loaded, settings, rot, ret, loggers, root, nextId, ext>>


\* No rollover has happened and no rotated file exists
NoBackups == [files |-> <<>>, n |-> 0]

\* No get_logger call is in progress
NoRebuild == [pc |-> "idle", name |-> <<>>, copy |-> <<>>, types |-> <<>>]

\* The requests that can be in flight at once
RequestIds == {"r1", "r2"}

\* No log_requests call was made for the request
NoRequest == [pc |-> "idle", method |-> "", path |-> "", log |-> <<>>,
              status |-> 0, header |-> FALSE, raised |-> "none", result |-> "none"]

\* The empty todos collection, no document saved yet
NoStore == [docs |-> <<>>, made |-> 0]

\* No todo service was called
NoCall == [op |-> "none", id |-> 0, resp |-> <<>>, raised |-> FALSE]

(***************************************************************************)
(* Specifications                                                          *)
(***************************************************************************)
Init ==
    /\ raw = NoSettings
    /\ loaded = "unloaded"
    /\ settings = NoSettings
    /\ rot = NotCalled
    /\ ret = NotCalled
    /\ loggers = [n \in Names |-> NewLogger]
    /\ root = [level |-> WARNING, handlers |-> <<>>]
    /\ nextId = 0
    /\ emitted = Idle
    /\ out = <<>>
    /\ fcall = NoFormat
    /\ fs = {}
    /\ hcall = NotBuilt
    /\ delivery = [broken |-> {}, raised |-> FALSE]
    /\ rotated = NoBackups
    /\ rebuild = NoRebuild
    /\ req = [r \in RequestIds |-> NoRequest]
    /\ store = NoStore
    /\ bg = <<>>
    /\ tcall = NoCall

S_text == PyStr(<<"t","e","x","t">>)
S_json == PyStr(<<"j","s","o","n">>)
S_csv == PyStr(<<"c","s","v">>)
S_xml == PyStr(<<"x","m","l">>)
S_info == PyStr(<<"I","N","F","O">>)
S_path == PyStr(<<"/","x","/","a">>)

\* Raw inputs of the logger specification: levels in assorted case, the
\* formats, and handler settings of every input shape.
RawLevels == {
    PyStr(<<"w","a","r","n","i","n","g">>), S_info,
    PyStr(<<"N","o","t","S","e","t">>), PyStr(<<"D","e","b","u","g">>),
    PyStr(<<"e","r","r","o","r">>), PyStr(<<"C","R","I","T","I","C","A","L">>),
    PyStr(<<"v","e","r","b","o","s","e">>) }

RawFormats == {S_text, S_json, S_csv, S_xml}

RawHandlers == {
    PyStr(Console), PyStr(File), PyStr(Syslog),
    PyStr(File \o <<",", " ">> \o Console),
    PyStr(Console \o <<",">> \o File \o <<",">> \o Syslog),
    PyStr(<<>>), PyStr(<<" ", ",", " ", ",">>),
    PyStr(Console \o <<",","f","o","o">>),
    PyList(<<>>), PyList(<<File>>), PyList(<<Syslog, Console>>),
    PyNone, PyInt }

RawFiles == {PyNone, PyStr(<<" ">>), S_path}

\* Every level with the default destination; every format; and every handler
\* setting with and without a file path.
RawInputs ==
    { RawRecord(lv, S_text, PyNone, PyNone, PyNone, PyStr(Console)) : lv \in RawLevels }
    \cup
    { RawRecord(S_info, fm, S_path, PyNone, PyNone, PyStr(Console)) : fm \in RawFormats }
    \cup
    { RawRecord(PyStr(<<"w","a","r","n","i","n","g">>), S_text, fl, PyNone, PyNone, hs) :
        fl \in RawFiles, hs \in RawHandlers }

Next ==
    \/ LoadSettings(RawInputs)
    \/ \E n \in Names : GetLogger(n)
    \/ BasicConfig
    \/ \E n \in Names, sev \in Severities, m \in Messages : Emit(n, sev, m)

Spec == Init /\ [][Next]_vars

\* Every string of at most MaxLen characters over the parsers' alphabet
Alphabet == {"0", "1", "2", "^2", "s", "m", "h", "d", "w", "D", "x", " "}
Strings == UNION {[1..k -> Alphabet] : k \in 0..MaxLen}

ParseInputs ==
    { RawRecord(S_info, S_text, PyNone, v, v, PyStr(Console)) :
        v \in {PyNone} \cup {PyStr(s) : s \in Strings} }

NextParse ==
    \/ LoadSettings(ParseInputs)
    \/ ParseRotation
    \/ \E w \in Whens : ParseRetention(w)

SpecParse == Init /\ [][NextParse]_vars

\* Every mix of upper and lower case of the canonical name n
CaseMixes(n) ==
    { [i \in 1..Len(n) |-> IF i \in S THEN LowerChar(n[i]) ELSE n[i]] :
        S \in SUBSET (1..Len(n)) }

AllLevels ==
    {PyStr(s) : s \in UNION {CaseMixes(n) : n \in LevelNames}}
        \cup { PyStr(<<"v","e","r","b","o","s","e">>), PyStr(<<"w","a","r","n">>),
               PyStr(<<"I","N","F","O"," ">>), PyStr(<<>>), PyNone, PyInt }

RawPolicies == {PyNone, PyStr(<<"7","d">>), PyStr(<<"a","b","c">>), PyStr(<<"^2","d">>)}

\* List inputs with a blank and an unknown entry
RawHandlerLists == { PyList(<< <<" ">>, Console >>), PyList(<< <<"f","o","o">> >>) }

SettingsInputs ==
    { RawRecord(lv, S_text, PyNone, PyNone, PyNone, PyStr(Console)) : lv \in AllLevels }
    \cup
    { RawRecord(lv, fm, fl, rt, ro, hs) :
        lv \in {S_info, PyStr(<<"D","e","b","u","g">>), PyStr(<<"w","a","r","n">>)},
        fm \in RawFormats, fl \in RawFiles,
        rt \in RawPolicies, ro \in RawPolicies, hs \in RawHandlers \cup RawHandlerLists }

NextSettings == LoadSettings(SettingsInputs)

SpecSettings == Init /\ [][NextSettings]_vars


(***************************************************************************)
(* Claims about logger assembly (checked under Spec)                       *)
(***************************************************************************)
KindOf(ty) ==
    CASE ty = Console -> "console"
      [] ty = File -> "file"
      [] ty = Syslog -> "syslog"
      [] OTHER -> "unknown"

Kinds(hs) == [i \in 1..Len(hs) |-> hs[i].kind]

\* The destinations settings s asks for, in order: one per entry of
\* s.handlers, a file entry counting only when a file path is configured.
Requested(s) ==
    Kinds(SelectSeq([i \in 1..Len(s.handlers.l) |-> [kind |-> KindOf(s.handlers.l[i])]],
                    LAMBDA h : h.kind # "file" \/ s.file.t # "none"))

Count(seq, x) == Cardinality({i \in 1..Len(seq) : seq[i] = x})

OwnLines(n) == SelectSeq(out, LAMBDA ln : ln.owner = n)

\* C1: after get_logger(name) the logger's handlers correspond one-to-one and
\* in order to the entries of settings.handlers (file skipped only without a
\* file path); with handlers=[file] and a path, an info emit that is accepted
\* writes one line to the file handler.
C1_HandlersFollowSettings ==
    \A n \in Names :
        (loaded = "ok" /\ loggers[n].exists /\ settings.handlers.l # <<>>) =>
            /\ Kinds(loggers[n].handlers) = Requested(settings)
            /\ (/\ settings.handlers.l = <<File>> /\ settings.file.t # "none"
                /\ emitted.name = n /\ emitted.accepted)
                   => Kinds(OwnLines(n)) = <<"file">>

\* C2: after n >= 1 get_logger calls with one name and the same settings the
\* logger holds exactly one copy of each configured destination, and an
\* accepted emit writes one line per configured destination.
C2_OneCopyOfEachConfigured ==
    \A n \in Names :
        (loaded = "ok" /\ loggers[n].calls >= 1) =>
            LET want == IF Requested(settings) = <<>> THEN <<"console">>
                        ELSE Requested(settings)
            IN  /\ \A k \in {"console", "file", "syslog"} :
                      Count(Kinds(loggers[n].handlers), k) = Count(want, k)
                /\ (emitted.name = n /\ emitted.accepted)
                      => Len(OwnLines(n)) = Len(want)

\* The part of C2 that does not depend on which destinations are attached:
\* a repeated get_logger call never accumulates handlers.
C2_NoAccumulation ==
    \A n \in Names :
        loggers[n].calls >= 1 =>
            /\ Len(loggers[n].handlers) = Len(HandlerTypes(settings))
            /\ \A i, j \in 1..Len(loggers[n].handlers) :
                  i # j => loggers[n].handlers[i].id # loggers[n].handlers[j].id

\* C3: when settings.handlers is empty after normalization, get_logger
\* returns a logger with exactly one handler, the console handler.
C3_EmptyHandlersFallBackToConsole ==
    \A n \in Names :
        (loaded = "ok" /\ loggers[n].exists /\ settings.handlers.l = <<>>) =>
            Kinds(loggers[n].handlers) = <<"console">>

\* C3 witness: an all-blank comma string normalized to the empty list, and a
\* logger built from it after a repeated call.
C3_Witness ==
    /\ loaded = "ok"
    /\ raw.handlers = PyStr(<<" ", ",", " ", ",">>)
    /\ settings.handlers.l = <<>>
    /\ loggers[App].calls = 2
    /\ Len(loggers[App].handlers) = 1

\* The ordinal the claims assign to a canonical level name
Ordinal(name) ==
    CASE name = <<"N","O","T","S","E","T">> -> 0
      [] name = <<"D","E","B","U","G">> -> 10
      [] name = <<"I","N","F","O">> -> 20
      [] name = <<"W","A","R","N","I","N","G">> -> 30
      [] name = <<"E","R","R","O","R">> -> 40
      [] name = <<"C","R","I","T","I","C","A","L">> -> 50

\* "{timestamp} | {level:<8} | {name} | {message}" for a WARNING record
WarningLine(n, m) ==
    <<"T", " ", "|", " ", "W","A","R","N","I","N","G"," ", " ", "|", " ">>
        \o n \o <<" ", "|", " ">> \o m

\* C4: an emit of severity S on a logger configured with level C reaches the
\* logger's destinations iff ordinal(S) >= ordinal(C), and then writes exactly
\* one line per attached destination; a warning through the text formatter
\* has the form of the text template.
C4_ThresholdFiltering ==
    (loaded = "ok" /\ emitted.name # <<>>) =>
        LET n == emitted.name
            passes == emitted.sev >= Ordinal(settings.level.s)
        IN  /\ passes <=> OwnLines(n) # <<>>
            /\ passes =>
                 /\ Len(OwnLines(n)) = Len(loggers[n].handlers)
                 /\ \A i \in 1..Len(loggers[n].handlers) :
                       OwnLines(n)[i].id = loggers[n].handlers[i].id
                 /\ (emitted.sev = WARNING /\ settings.format = S_text) =>
                       \A i \in 1..Len(OwnLines(n)) :
                           OwnLines(n)[i].line = WarningLine(n, emitted.msg)

\* C5: get_logger sets the threshold to get_log_level_int(settings.level), the
\* mapping is strictly increasing from NOTSET to CRITICAL, and a logger
\* configured NOTSET accepts every severity.
C5_NotsetMostPermissive ==
    \A n \in Names :
        (loaded = "ok" /\ loggers[n].exists) =>
            /\ loggers[n].level = Ordinal(settings.level.s)
            /\ NOTSET < DEBUG /\ DEBUG < INFO /\ INFO < WARNING
            /\ WARNING < ERROR /\ ERROR < CRITICAL
            /\ (settings.level.s = <<"N","O","T","S","E","T">> /\ emitted.name = n)
                   => emitted.accepted

\* The parts of C4 and C5 that hold: the threshold get_logger sets is the
\* ordinal of the configured level, and for every level but NOTSET an emit is
\* accepted iff its severity reaches that ordinal.
C5_ThresholdIsOrdinal ==
    \A n \in Names :
        (loaded = "ok" /\ loggers[n].exists) =>
            /\ loggers[n].level = Ordinal(settings.level.s)
            /\ (settings.level.s # <<"N","O","T","S","E","T">> /\ emitted.name = n)
                   => (emitted.accepted <=> emitted.sev >= Ordinal(settings.level.s))


(***************************************************************************)
(* Claims about LoggerSettings construction (checked under SpecSettings)   *)
(***************************************************************************)
\* s and c are the same string under case folding
SameFolded(s, c) ==
    Len(s) = Len(c) /\ \A i \in 1..Len(s) : LowerChar(s[i]) = LowerChar(c[i])

\* C6: a raw level string that equals a canonical level name under case
\* folding is accepted (the other fields being valid) and is stored as the
\* uppercase canonical name; after any successful construction level is one
\* of the six canonical values.
C6_LevelNormalized ==
    /\ \A c \in LevelNames :
          ( /\ loaded # "unloaded"
            /\ raw.level.t = "str" /\ SameFolded(raw.level.s, c)
            /\ raw.format.s \in FormatNames
            /\ \A i \in 1..Len(_parse_handlers(raw.handlers).l) :
                  _parse_handlers(raw.handlers).l[i] \in HandlerNames )
          => (loaded = "ok" /\ settings.level = PyStr(c))
    /\ loaded = "ok" => (settings.level.t = "str" /\ settings.level.s \in LevelNames)

\* C6 witness: "wArNiNg" constructed into WARNING
C6_Witness ==
    /\ raw.level = PyStr(<<"w","A","r","N","i","N","g">>)
    /\ loaded = "ok"
    /\ settings.level = PyStr(<<"W","A","R","N","I","N","G">>)

\* C7: construction fails only when level (after uppercasing) or format is
\* not one of the enumerated literals; every other malformed field leaves
\* construction successful.
C7_FailsOnlyOnLevelOrFormat ==
    loaded = "ValidationError" =>
        \/ ~(raw.level.t = "str" /\ \E c \in LevelNames : SameFolded(raw.level.s, c))
        \/ ~(raw.format.t = "str" /\ raw.format.s \in FormatNames)

\* The part of C7 that holds: with every handler entry one of console, file,
\* syslog, construction fails only on level or format, and a blank file
\* becomes absent.
C7_ExceptUnknownHandler ==
    /\ ( /\ loaded = "ValidationError"
         /\ \A i \in 1..Len(_parse_handlers(raw.handlers).l) :
               _parse_handlers(raw.handlers).l[i] \in HandlerNames )
       => \/ ~(raw.level.t = "str" /\ \E c \in LevelNames : SameFolded(raw.level.s, c))
          \/ ~(raw.format.t = "str" /\ raw.format.s \in FormatNames)
    /\ (loaded = "ok" /\ raw.file = PyStr(<<" ">>)) => settings.file = PyNone

(***************************************************************************)
(* Claims about the policy parsers (checked under SpecParse)               *)
(***************************************************************************)
\* v, trimmed and lowercased, is <decimal digits><unit>
WellFormed(v) ==
    /\ v.t = "str"
    /\ LET s == Lower(Strip(v.s))
       IN  /\ Len(s) >= 2
           /\ s[Len(s)] \in Units
           /\ \A i \in 1..(Len(s) - 1) : IsDecimal(s[i])

\* The numeric prefix and the unit of a well-formed value
PrefixOf(v) == LET s == Lower(Strip(v.s)) IN IntOf(SubSeq(s, 1, Len(s) - 1))
UnitOf(v) == LET s == Lower(Strip(v.s)) IN s[Len(s)]

WhenOf(u) ==
    CASE u = "s" -> "S" [] u = "m" -> "M" [] u = "h" -> "H"
      [] u = "d" -> "D" [] u = "w" -> "W0"

RotCalled == rot # NotCalled
RetCalled == ret.n # -1

\* C8: for every rotation that is absent, empty or not <digits><unit>,
\* parse_rotation returns ("D", 1).
C8_MalformedRotationDefaults ==
    (RotCalled /\ ~WellFormed(settings.rotation)) => rot = Returned("D", 1)

\* C9: for every rotation that is <digits n><unit u> after trimming and
\* lowercasing, parse_rotation returns (unit(u), n); whitespace and case of
\* the input do not change the result.
C9_WellFormedRotation ==
    /\ (RotCalled /\ WellFormed(settings.rotation)) =>
          rot = Returned(WhenOf(UnitOf(settings.rotation)), PrefixOf(settings.rotation))
    /\ (RotCalled /\ settings.rotation = PyStr(<<"1","2","h">>)) => rot = Returned("H", 12)
    /\ (RotCalled /\ settings.rotation = PyStr(<<"2","w">>)) => rot = Returned("W0", 2)
    /\ (RotCalled /\ settings.rotation = PyStr(<<"1","0","s">>)) => rot = Returned("S", 10)
    /\ (RotCalled /\ settings.rotation = PyStr(<<"2","m">>)) => rot = Returned("M", 2)
    /\ (RotCalled /\ settings.rotation \in {PyStr(<<" ","2","D">>), PyStr(<<"2","d"," ">>)})
          => rot = Returned("D", 2)

\* C9 witness: " 2D" parsed to two days
C9_Witness ==
    /\ settings.rotation = PyStr(<<" ","2","D">>)
    /\ rot = Returned("D", 2)

\* C10: parse_retention returns 7 when retention is absent, empty or not
\* <digits><unit>; on a match it returns the numeric prefix, whatever the
\* unit and whatever rotation_when it is given.
C10_RetentionCount ==
    RetCalled =>
        /\ ~ret.raised
        /\ ret.n = IF WellFormed(settings.retention) THEN PrefixOf(settings.retention)
                   ELSE 7

\* The part of C8 and C10 that holds: on every input whose prefix is made of
\* decimal digits or fails the digit check, the parsers return the default
\* for a malformed value and the prefix for a well-formed one.
C10_ExceptNonDecimalDigits ==
    LET decimal(v) ==
            v.t = "str" => \A i \in 1..Len(v.s) : v.s[i] \notin OtherDigits
    IN  /\ (RetCalled /\ decimal(settings.retention)) =>
               /\ ~ret.raised
               /\ ret.n = IF WellFormed(settings.retention)
                          THEN PrefixOf(settings.retention) ELSE 7
        /\ (RotCalled /\ decimal(settings.rotation) /\ ~WellFormed(settings.rotation))
               => rot = Returned("D", 1)


\* C11: parse_rotation and parse_retention never raise: for every string
\* value each returns a policy value.
C11_ParsersNeverRaise ==
    /\ RotCalled => ~rot.raised
    /\ RetCalled => ~ret.raised

\* C12: every policy parse_rotation returns has a unit among seconds,
\* minutes, hours, days, weeks and an interval that is at least 1.
C12_IntervalPositive ==
    (RotCalled /\ ~rot.raised) => (rot.when \in Whens /\ rot.n >= 1)

\* The part of C12 that holds: the unit is always one of the five, and the
\* interval is at least 1 unless the numeric prefix is all zeros.
C12_ExceptZeroPrefix ==
    (RotCalled /\ ~rot.raised) =>
        /\ rot.when \in Whens
        /\ rot.n >= 0
        /\ rot.n = 0 =>
              /\ WellFormed(settings.rotation)
              /\ LET s == Strip(settings.rotation.s)
                 IN  \A i \in 1..(Len(s) - 1) : s[i] = "0"


RECURSIVE Concat(_)
Concat(parts) == IF parts = <<>> THEN <<>> ELSE Head(parts) \o Concat(Tail(parts))

\* s without its blanks and commas
Significant(s) == SelectSeq(s, LAMBDA c : ~IsSpace(c) /\ c # ",")

\* The positions of s that hold the first non-blank character of a
\* comma-separated segment
SegmentStarts(s) ==
    { i \in 1..Len(s) :
        /\ ~IsSpace(s[i]) /\ s[i] # ","
        /\ \A j \in 1..(i - 1) :
              (\A k \in j..(i - 1) : s[k] # ",") => IsSpace(s[j]) }

UpperMixes(n) ==
    { [i \in 1..Len(n) |-> IF i \in S THEN UpperChar(n[i]) ELSE n[i]] :
        S \in SUBSET (1..Len(n)) }

FormatArgs ==
    UNION {UpperMixes(n) : n \in FormatNames}
        \cup { <<"x","m","l">>, <<>>, <<"j","s","o","n","x">>, <<" ","c","s","v">> }

QuotedName == <<"a","\"","b">>
FormatMessages == {DiskLow, Quoted, <<"\"", ":">>, <<"a", ",", "\"", "\"">>, <<>>}
ExcTexts == {<<>>, <<"E","r","r",":"," ","x">>}

FormatRecords ==
    { [name |-> n, sev |-> sev, msg |-> m, exc |-> e] :
        n \in {App, QuotedName}, sev \in Severities, m \in FormatMessages, e \in ExcTexts }

NextFormat ==
    \/ \E f \in FormatArgs : GetFormatter(f)
    \/ \E k \in {"json", "csv", "text"}, rec \in FormatRecords : Format(k, rec)

SpecFormat == Init /\ [][NextFormat]_vars

\* C14 as stated: "json", "csv" and "text" select their formatter and every
\* other identifier selects the text formatter.
C14_OtherIdentifiersAreText ==
    fcall.op = "get_formatter" =>
        fcall.kind = CASE fcall.arg = <<"j","s","o","n">> -> "json"
                     [] fcall.arg = <<"c","s","v">> -> "csv"
                     [] OTHER -> "text"

\* C14 (amended): an identifier equal to "json" (to "csv") up to letter case
\* selects the JSON (the CSV) formatter, and every other identifier, "text"
\* included, selects the text formatter; the call returns for every string.
C14_CaseInsensitiveSelection ==
    fcall.op = "get_formatter" =>
        fcall.kind = CASE SameFolded(fcall.arg, <<"j","s","o","n">>) -> "json"
                     [] SameFolded(fcall.arg, <<"c","s","v">>) -> "csv"
                     [] OTHER -> "text"

\* C14 witness: "JsOn" selects the JSON formatter
C14_Witness ==
    /\ fcall.op = "get_formatter"
    /\ fcall.arg = <<"J","s","O","n">>
    /\ fcall.kind = "json"


Malformed == [ok |-> FALSE, field |-> <<>>, rest |-> <<>>, fields |-> <<>>]

RECURSIVE CsvQuoted(_, _)
\* Reads a quoted field whose opening quote was consumed: a doubled quote is
\* one quote of the field, a single quote closes it.
CsvQuoted(s, acc) ==
    IF s = <<>> THEN Malformed
    ELSE IF Head(s) = "\""
         THEN IF Len(s) >= 2 /\ s[2] = "\""
              THEN CsvQuoted(SubSeq(s, 3, Len(s)), Append(acc, "\""))
              ELSE [ok |-> TRUE, field |-> acc, rest |-> Tail(s), fields |-> <<>>]
         ELSE CsvQuoted(Tail(s), Append(acc, Head(s)))

RECURSIVE CsvFields(_)
\* A CSV reader for one line of comma-separated, double-quoted fields
CsvFields(s) ==
    IF s = <<>> \/ Head(s) # "\"" THEN Malformed
    ELSE LET q == CsvQuoted(Tail(s), <<>>)
         IN  IF ~q.ok THEN Malformed
             ELSE IF q.rest = <<>>
                  THEN [ok |-> TRUE, field |-> <<>>, rest |-> <<>>, fields |-> <<q.field>>]
             ELSE IF Head(q.rest) # "," THEN Malformed
             ELSE LET r == CsvFields(Tail(q.rest))
                  IN  IF r.ok
                      THEN [ok |-> TRUE, field |-> <<>>, rest |-> <<>>,
                            fields |-> <<q.field>> \o r.fields]
                      ELSE Malformed

Quotes(s) == Cardinality({i \in 1..Len(s) : s[i] = "\""})

\* The rendered line ends with the exception text
EndsWith(line, e) ==
    Len(line) >= Len(e) /\ SubSeq(line, Len(line) - Len(e) + 1, Len(line)) = e

\* C15: for every record the CSV line doubles each double quote of the
\* message, reads back as exactly the four quoted fields timestamp, level,
\* name, message, and carries no exception detail.
C15_CsvFourFields ==
    (fcall.op = "format" /\ fcall.kind = "csv") =>
        LET rec == fcall.rec
            parsed == CsvFields(fcall.line)
        IN  /\ parsed.ok
            /\ parsed.fields = <<Timestamp, getLevelName(rec.sev), rec.name, rec.msg>>
            /\ Quotes(fcall.line) = 8 + Quotes(rec.name) + 2 * Quotes(rec.msg)
            /\ rec.exc # <<>> => ~EndsWith(fcall.line, rec.exc)

\* The part of C15 that holds: with a logger name free of double quotes the
\* line reads back as the four fields, whatever the message; and no line
\* carries exception detail.
C15_ExceptQuotedName ==
    (fcall.op = "format" /\ fcall.kind = "csv") =>
        LET rec == fcall.rec
            parsed == CsvFields(fcall.line)
        IN  /\ Quotes(rec.name) = 0 =>
                 /\ parsed.ok
                 /\ parsed.fields = <<Timestamp, getLevelName(rec.sev), rec.name, rec.msg>>
                 /\ Quotes(fcall.line) = 8 + 2 * Quotes(rec.msg)
            /\ rec.exc # <<>> => ~EndsWith(fcall.line, rec.exc)

\* The number of consecutive backslashes that end just before position i
BackslashRun(s, i) ==
    CHOOSE k \in 0..(i - 1) :
        /\ \A j \in (i - k)..(i - 1) : s[j] = "\\"
        /\ k = i - 1 \/ s[i - k - 1] # "\\"

\* The positions of the quotes that delimit strings (an escaped quote is
\* preceded by an odd run of backslashes)
StringQuotes(s) == {i \in 1..Len(s) : s[i] = "\"" /\ BackslashRun(s, i) % 2 = 0}

\* The closing quotes of the strings that a colon follows: the keys' ends
KeyEnds(s) ==
    LET qs == StringQuotes(s)
    IN  {q \in qs : /\ Cardinality({p \in qs : p <= q}) % 2 = 0
                    /\ q < Len(s) /\ s[q + 1] = ":"}

\* The keys of a rendered JSON object, one per key position
JsonKeys(s) ==
    LET qs == StringQuotes(s)
        open(q) == CHOOSE p \in qs : p < q /\ \A r \in qs : r < q => r <= p
    IN  [q \in KeyEnds(s) |-> SubSeq(s, open(q) + 1, q - 1)]

BaseKeys == {
    <<"t","i","m","e","s","t","a","m","p">>, <<"l","e","v","e","l">>,
    <<"n","a","m","e">>, <<"m","e","s","s","a","g","e">>,
    <<"m","o","d","u","l","e">>, <<"l","i","n","e">> }

ExceptionKey == <<"e","x","c","e","p","t","i","o","n">>

\* C16: for every record the JSON object has exactly the keys timestamp,
\* level, name, message, module, line, plus exception if and only if the
\* record carries exception context.
C16_JsonKeys ==
    (fcall.op = "format" /\ fcall.kind = "json") =>
        LET keys == JsonKeys(fcall.line)
            keyset == {keys[q] : q \in DOMAIN keys}
        IN  /\ Cardinality(DOMAIN keys) = Cardinality(keyset)
            /\ keyset = BaseKeys \cup (IF fcall.rec.exc # <<>> THEN {ExceptionKey} ELSE {})

\* C16 witness: a record with exception context and a message holding a quote
\* and a colon, rendered with the exception key last
C16_Witness ==
    /\ fcall.op = "format" /\ fcall.kind = "json"
    /\ fcall.rec.exc # <<>>
    /\ fcall.rec.msg = <<"\"", ":">>
    /\ LET keys == JsonKeys(fcall.line)
       IN  /\ Cardinality(DOMAIN keys) = 7
           /\ \E q \in DOMAIN keys : keys[q] = ExceptionKey /\ \A p \in DOMAIN keys : p <= q


(***************************************************************************)
(* Emit with failing destinations.  The handlers get_console_handler,      *)
(* get_file_handler and get_syslog_handler return, and those main.py gives *)
(* to basicConfig, are logging.StreamHandler, TimedRotatingFileHandler,    *)
(* SysLogHandler and FileHandler objects: their emit() catches an          *)
(* Exception raised by the format or the write and calls handleError,      *)
(* which reports on stderr and returns.  A destination is broken by kind:  *)
(* every console handler writes to the one sys.stdout.                     *)
(***************************************************************************)
SinkKinds == {"console", "file"}

RECURSIVE FirstFailure(_, _)
\* The index of the first line of lines whose destination is broken, or 0
FirstFailure(lines, broken) ==
    IF lines = <<>> THEN 0
    ELSE IF Head(lines).kind \in broken THEN 1
    ELSE LET r == FirstFailure(Tail(lines), broken)
         IN  IF r = 0 THEN 0 ELSE r + 1

\* Handlers whose emit() lets the exception through: the loop of
\* callHandlers stops at the first failure and the caller sees the error
Delivered_unguarded(lines, broken) ==
    LET f == FirstFailure(lines, broken)
    IN  IF f = 0 THEN [out |-> lines, raised |-> FALSE]
        ELSE [out |-> SubSeq(lines, 1, f - 1), raised |-> TRUE]

\* Handler.handle over the chain: a handler whose write fails leaves no line
\* and raises nothing; the loop goes on to the next handler
Delivered(lines, broken) ==
    [out |-> SelectSeq(lines, LAMBDA l : l.kind \notin broken), raised |-> FALSE]

\* logger.<level>(msg) while the destinations of the kinds in broken fail
EmitBroken(name, sev, msg, broken) ==
    /\ loggers[name].exists
    /\ LET rec == [name |-> name, sev |-> sev, msg |-> msg, exc |-> <<>>]
           ok == isEnabledFor(name, sev)
           d == Delivered(IF ok THEN callHandlers(name, rec) ELSE <<>>, broken)
       IN  /\ emitted' = [name |-> name, sev |-> sev, msg |-> msg, accepted |-> ok]
           /\ out' = d.out
           /\ delivery' = [broken |-> broken, raised |-> d.raised]
    /\ UNCHANGED <<raw, loaded, settings, rot, ret, loggers, root, nextId,
                   fcall, fs, hcall, ext2>>

EmitInputs ==
    { RawRecord(lv, fm, PyNone, PyNone, PyNone, PyStr(Console)) :
        lv \in {S_info, PyStr(<<"D","e","b","u","g">>)}, fm \in {S_text, S_json} }

NextEmit ==
    \/ LoadSettings(EmitInputs)
    \/ \E n \in Names : GetLogger(n)
    \/ BasicConfig
    \/ \E n \in Names, sev \in {INFO, ERROR}, broken \in SUBSET SinkKinds :
          EmitBroken(n, sev, DiskLow, broken)

SpecEmit == Init /\ [][NextEmit]_vars

\* The handlers of the chain of logger n whose destination is of kind k
ChainHandlers(n, k) ==
    LET own(o, hs) == {<<o, hs[i].id>> : i \in {j \in 1..Len(hs) : hs[j].kind = k}}
    IN  own(n, loggers[n].handlers)
          \cup UNION {own(a, loggers[a].handlers) : a \in ExistingAncestors(n)}
          \cup own(RootName, root.handlers)

PathOf(s) ==
    [abs |-> s # <<>> /\ Head(s) = "/",
     parts |-> SelectSeq(Split(s, "/"), LAMBDA c : c # <<>> /\ c # <<".">>)]

\* Path.parent
Parent(p) ==
    [abs |-> p.abs,
     parts |-> IF p.parts = <<>> THEN <<>> ELSE SubSeq(p.parts, 1, Len(p.parts) - 1)]

\* The directory d and its ancestors below the root (or the working
\* directory), outermost first
Ancestry(d) == [k \in 1..Len(d.parts) |-> [abs |-> d.abs, parts |-> SubSeq(d.parts, 1, k)]]

\* The directories of Ancestry(d) that do not exist yet, outermost first
Missing(d, dirs) == SelectSeq(Ancestry(d), LAMBDA a : a \notin dirs)

FileResult(outcome, ops, handler, first, second) ==
    [call |-> "get_file_handler", outcome |-> outcome, ops |-> ops,
     handler |-> handler, env |-> [first |-> first, second |-> second]]

\* get_file_handler opening the log file without creating its directory
get_file_handler_call_no_mkdir(s, dirs, failAt, openOk) ==
    IF ~Truthy(s.file) THEN FileResult("None", <<>>, <<>>, failAt, openOk)
    ELSE LET p == PathOf(s.file.s)
             rotation == parse_rotation(s)
             backup == parse_retention(s, rotation.when)
             open == [op |-> "open", path |-> p, dirs |-> dirs]
         IN  IF rotation.raised \/ backup.raised
             THEN FileResult("ValueError", <<>>, <<>>, failAt, openOk)
             ELSE FileResult("handler", <<open>>,
                     << [kind |-> "file", fmt |-> get_formatter(s.format.s),
                         filename |-> p, when |-> rotation.when,
                         interval |-> rotation.n, backupCount |-> backup.n] >>,
                     failAt, openOk)

\* logging.py:100-123 in an environment: mkdir of the parent fails at the
\* failAt-th missing directory (0: it succeeds), and the open of the file
\* succeeds or not
get_file_handler_call(s, dirs, failAt, openOk) ==
    IF ~Truthy(s.file) THEN FileResult("None", <<>>, <<>>, failAt, openOk)
    ELSE LET p == PathOf(s.file.s)
             missing == Missing(Parent(p), dirs)
             made == dirs \cup {missing[i] : i \in
                        1..(IF failAt = 0 THEN Len(missing) ELSE failAt - 1)}
             mkdir == [op |-> "mkdir", path |-> Parent(p), dirs |-> made]
             open == [op |-> "open", path |-> p, dirs |-> made]
             rotation == parse_rotation(s)
             backup == parse_retention(s, rotation.when)
         IN  IF failAt # 0
             THEN FileResult("OSError", <<mkdir>>, <<>>, failAt, openOk)
             ELSE IF rotation.raised \/ backup.raised
             THEN FileResult("ValueError", <<mkdir>>, <<>>, failAt, openOk)
             ELSE IF ~openOk
             THEN FileResult("OSError", <<mkdir, open>>, <<>>, failAt, openOk)
             ELSE FileResult("handler", <<mkdir, open>>,
                     << [kind |-> "file", fmt |-> get_formatter(s.format.s),
                         filename |-> p, when |-> rotation.when,
                         interval |-> rotation.n, backupCount |-> backup.n] >>,
                     failAt, openOk)

\* The directories that exist after the call
DirsAfter(dirs, result) ==
    IF result.ops = <<>> THEN dirs ELSE result.ops[1].dirs

DevLog == <<"/","d","e","v","/","l","o","g">>
DefaultAddress == <<"l","o","c","a","l","h","o","s","t",":","5","1","4">>

SyslogResult(outcome, ops, handler, devlog, dflt) ==
    [call |-> "get_syslog_handler", outcome |-> outcome, ops |-> ops,
     handler |-> handler, env |-> [first |-> devlog, second |-> dflt]]

\* get_syslog_handler without the except branch
get_syslog_handler_call_no_fallback(s, devlog, dflt) ==
    IF devlog
    THEN SyslogResult("handler", <<DevLog>>,
            << [kind |-> "syslog", fmt |-> get_formatter(s.format.s), address |-> DevLog] >>,
            devlog, dflt)
    ELSE SyslogResult("OSError", <<DevLog>>, <<>>, devlog, dflt)

\* logging.py:126-134 in an environment: SysLogHandler(address="/dev/log")
\* succeeds or raises OSError, and so does SysLogHandler()
get_syslog_handler_call(s, devlog, dflt) ==
    IF devlog
    THEN SyslogResult("handler", <<DevLog>>,
            << [kind |-> "syslog", fmt |-> get_formatter(s.format.s), address |-> DevLog] >>,
            devlog, dflt)
    ELSE IF dflt
    THEN SyslogResult("handler", <<DevLog, DefaultAddress>>,
            << [kind |-> "syslog", fmt |-> get_formatter(s.format.s),
                address |-> DefaultAddress] >>,
            devlog, dflt)
    ELSE SyslogResult("OSError", <<DevLog, DefaultAddress>>, <<>>, devlog, dflt)

\* get_file_handler() called directly
GetFileHandler(failAt, openOk) ==
    /\ loaded = "ok"
    /\ Truthy(settings.file) => failAt <= Len(Missing(Parent(PathOf(settings.file.s)), fs))
    /\ ~Truthy(settings.file) => failAt = 0
    /\ hcall' = get_file_handler_call(settings, fs, failAt, openOk)
    /\ fs' = DirsAfter(fs, hcall')
    /\ UNCHANGED <<raw, loaded, settings, rot, ret, loggers, root, nextId, emitted, out,
                   fcall, delivery, ext2>>

\* get_syslog_handler() called directly
GetSyslogHandler(devlog, dflt) ==
    /\ loaded = "ok"
    /\ hcall' = get_syslog_handler_call(settings, devlog, dflt)
    /\ UNCHANGED <<raw, loaded, settings, rot, ret, loggers, root, nextId, emitted, out,
                   fcall, fs, delivery, ext2>>

S_deep == PyStr(<<"/","x","/","y","/","a">>)

BuildFiles == {PyNone, PyStr(<<>>), PyStr(<<" ">>), PyStr(<<"a">>), S_deep}

BuildPolicies == {PyNone, PyStr(<<"2","w">>), PyStr(<<"^2","d">>), PyStr(<<"0","d">>)}

BuildInputs ==
    { RawRecord(S_info, fm, fl, rt, ro, hs) :
        fm \in {S_text, S_json}, fl \in BuildFiles,
        rt \in BuildPolicies \ {PyStr(<<"0","d">>)}, ro \in BuildPolicies,
        hs \in {PyStr(File), PyStr(Console)} }

NextBuild ==
    \/ LoadSettings(BuildInputs)
    \/ \E failAt \in 0..2, openOk \in BOOLEAN : GetFileHandler(failAt, openOk)
    \/ \E devlog \in BOOLEAN, dflt \in BOOLEAN : GetSyslogHandler(devlog, dflt)
    \/ GetLogger(App)

SpecBuild == Init /\ [][NextBuild]_vars

FileCalled == hcall.call = "get_file_handler"

\* The raw file setting is missing, empty or whitespace only
RawFileBlank == raw.file.t = "none" \/ (raw.file.t = "str" /\ \A i \in 1..Len(raw.file.s) : raw.file.s[i] = " ")

\* C18: get_file_handler with no file configured (a blank raw string
\* included) returns None, does no I/O and raises nothing; with a path, the
\* only open of the file comes after the mkdir of its parent, at a moment
\* when the parent and all its ancestors exist, and a handler that is built
\* has when and interval of parse_rotation and backupCount of
\* parse_retention.
C18_FileHandlerConstruction ==
    FileCalled =>
        /\ RawFileBlank =>
              hcall.outcome = "None" /\ hcall.ops = <<>> /\ hcall.handler = <<>>
        /\ ~RawFileBlank =>
              LET p == PathOf(raw.file.s)
              IN  /\ hcall.outcome # "None"
                  /\ hcall.ops # <<>> /\ hcall.ops[1].op = "mkdir"
                  /\ hcall.ops[1].path = Parent(p)
                  /\ \A i \in 1..Len(hcall.ops) : hcall.ops[i].op = "open" =>
                        /\ i = 2 /\ hcall.ops[i].path = p
                        /\ \A k \in 1..Len(Parent(p).parts) :
                              Ancestry(Parent(p))[k] \in hcall.ops[i].dirs
                  /\ hcall.outcome = "handler" =>
                        /\ Len(hcall.ops) = 2 /\ Len(hcall.handler) = 1
                        /\ hcall.handler[1].filename = p
                        /\ hcall.handler[1].when = parse_rotation(settings).when
                        /\ hcall.handler[1].interval = parse_rotation(settings).n
                        /\ hcall.handler[1].backupCount
                              = parse_retention(settings, hcall.handler[1].when).n
                  /\ hcall.handler = <<>> <=> hcall.outcome # "handler"

\* C18 witness: the file /x/y/a with rotation "2w", its directories created
\* by the call, and the handler built with W0, 2 and the default 7 backups
C18_Witness ==
    /\ FileCalled /\ hcall.outcome = "handler"
    /\ raw.file = S_deep /\ raw.rotation = PyStr(<<"2","w">>) /\ raw.retention = PyNone
    /\ hcall.handler[1].when = "W0" /\ hcall.handler[1].interval = 2
    /\ hcall.handler[1].backupCount = 7
    /\ Cardinality(fs) = 2

\* The C18 case of a blank file setting reached: a whitespace-only raw string
C18_BlankReached ==
    FileCalled /\ raw.file = PyStr(<<" ">>) /\ hcall.outcome = "None"

\* C19: a logger that get_logger returned while a file destination was
\* requested has the file handler, with the directory of the file in place:
\* a failure to create the directory or to open the file would have been
\* raised instead.
C19_FileFailurePropagates ==
    \A n \in Names :
        (loggers[n].exists /\ File \in {settings.handlers.l[i] : i \in 1..Len(settings.handlers.l)}
            /\ Truthy(settings.file)) =>
            /\ \E i \in 1..Len(loggers[n].handlers) : loggers[n].handlers[i].kind = "file"
            /\ Missing(Parent(PathOf(settings.file.s)), fs) = <<>>

\* The part of C19 that holds: get_file_handler itself lets a failed mkdir or
\* open through as an OSError and returns no handler
C19_DirectCallPropagates ==
    FileCalled =>
        /\ hcall.env.first # 0 => hcall.outcome = "OSError" /\ hcall.handler = <<>>
        /\ (Len(hcall.ops) = 2 /\ ~hcall.env.second) =>
              hcall.outcome = "OSError" /\ hcall.handler = <<>>

SyslogCalled == hcall.call = "get_syslog_handler"

LastStamp(files) == IF files = <<>> THEN 0 ELSE files[Len(files)]

\* TimedRotatingFileHandler.doRollover on the rotated files, oldest first
doRollover(files, stamp, backupCount) ==
    LET after == Append(SelectSeq(files, LAMBDA f : f # stamp), stamp)
    IN  IF backupCount > 0 /\ Len(after) > backupCount
        THEN SubSeq(after, Len(after) - backupCount + 1, Len(after))
        ELSE after

\* The file handler built last is in use
FileBuilt == hcall.call = "get_file_handler" /\ hcall.outcome = "handler"

\* One rollover of the handler built last: in a new period (fresh) or again
\* in the period of the newest rotated file
Rollover(fresh) ==
    /\ FileBuilt
    /\ rotated.n < MaxRollovers
    /\ fresh \/ rotated.files # <<>>
    /\ LET stamp == IF fresh THEN LastStamp(rotated.files) + 1
                    ELSE LastStamp(rotated.files)
       IN  rotated' = [files |-> doRollover(rotated.files, stamp,
                                            hcall.handler[1].backupCount),
                       n |-> rotated.n + 1]
    /\ UNCHANGED <<raw, loaded, settings, rot, ret, loggers, root, nextId, emitted, out,
                   fcall, fs, hcall, delivery, rebuild, req, store, bg, tcall>>

RotateRetentions ==
    { PyNone, PyStr(<<"1","d">>), PyStr(<<" ","2","D">>), PyStr(<<"0","d">>),
      PyStr(<<"a","b","c">>), PyStr(<<"^2","d">>) }

RotateInputs ==
    { RawRecord(S_info, S_text, fl, rt, PyNone, PyStr(File)) :
        fl \in {PyStr(<<"a">>), S_path}, rt \in RotateRetentions }

NextRotate ==
    \/ LoadSettings(RotateInputs)
    \/ \E failAt \in 0..1, openOk \in BOOLEAN : GetFileHandler(failAt, openOk)
    \/ \E fresh \in BOOLEAN : Rollover(fresh)

SpecRotate == Init /\ [][NextRotate]_vars

\* C21: while the file handler is in use, the rotated files on disk are at
\* most as many as parse_retention returns, whatever the retention setting
\* ("0d", for which it returns 0, included), and they are the newest ones.
C21_RetentionBound ==
    FileBuilt =>
        /\ Len(rotated.files) <= parse_retention(settings, hcall.handler[1].when).n
        /\ \A i \in 1..Len(rotated.files) :
              rotated.files[i] = LastStamp(rotated.files) - Len(rotated.files) + i

\* The part of C21 that holds: with a count above 0 the rotated files never
\* exceed it, and in every case the files kept are the newest
C21_ExceptZeroCount ==
    FileBuilt =>
        /\ parse_retention(settings, hcall.handler[1].when).n > 0 =>
              Len(rotated.files) <= parse_retention(settings, hcall.handler[1].when).n
        /\ \A i \in 1..Len(rotated.files) :
              rotated.files[i] = LastStamp(rotated.files) - Len(rotated.files) + i

\* The deletion of C21 happens: nine rollovers with the default count leave
\* the seven newest files
C21_DeletionReached ==
    FileBuilt /\ raw.retention = PyNone /\ rotated.n = 9 /\ Len(rotated.files) = 7
        /\ rotated.files[1] = 3


(***************************************************************************)
(* get_logger statement by statement (logging.py:139-158), so that an      *)
(* emit of another thread can fall between two of its statements.          *)
(* removeHandler and addHandler each change the handler list under the     *)
(* logging lock; callHandlers reads the list as it is at that moment.      *)
(***************************************************************************)
\* Logger.removeHandler leaving the list as it is
removeHandler_skip(hs, h) == hs

\* Logger.removeHandler (logging.py:142)
removeHandler(hs, h) == SelectSeq(hs, LAMBDA x : x # h)

\* logging.py:139-141: logging.getLogger(name) and the copy logger.handlers[:]
RebuildStart(name) ==
    /\ loaded = "ok"
    /\ rebuild.pc = "idle"
    /\ loggers[App].calls + loggers[AppMw].calls < MaxCalls
    /\ loggers' = [loggers EXCEPT ![name].exists = TRUE, ![name].calls = @ + 1]
    /\ rebuild' = [pc |-> "remove", name |-> name,
                   copy |-> loggers[name].handlers, types |-> <<>>]
    /\ UNCHANGED <<raw, loaded, settings, rot, ret, root, nextId, emitted, out,
                   fcall, fs, hcall, delivery, rotated, req, store, bg, tcall>>

\* logging.py:141-142: one iteration of the removal loop
RebuildRemove ==
    /\ rebuild.pc = "remove"
    /\ rebuild.copy # <<>>
    /\ loggers' = [loggers EXCEPT
                     ![rebuild.name].handlers = removeHandler(@, Head(rebuild.copy))]
    /\ rebuild' = [rebuild EXCEPT !.copy = Tail(@)]
    /\ emitted' = Idle
    /\ out' = <<>>
    /\ UNCHANGED <<raw, loaded, settings, rot, ret, root, nextId,
                   fcall, fs, hcall, delivery, rotated, req, store, bg, tcall>>

\* logging.py:145 and 148: setLevel, then the list the attach loop runs over
RebuildSetLevel ==
    /\ rebuild.pc = "remove"
    /\ rebuild.copy = <<>>
    /\ loggers' = [loggers EXCEPT ![rebuild.name].level = get_log_level_int(settings)]
    /\ rebuild' = [rebuild EXCEPT !.pc = "attach", !.types = HandlerTypes(settings)]
    /\ emitted' = Idle
    /\ out' = <<>>
    /\ UNCHANGED <<raw, loaded, settings, rot, ret, root, nextId,
                   fcall, fs, hcall, delivery, rotated, req, store, bg, tcall>>

\* logging.py:148-156: one iteration of the attach loop
RebuildAttach ==
    /\ rebuild.pc = "attach"
    /\ rebuild.types # <<>>
    /\ loggers' = [loggers EXCEPT
                     ![rebuild.name].handlers =
                         @ \o BuildHandlers(<<Head(rebuild.types)>>, settings, nextId)]
    /\ nextId' = nextId + 1
    /\ rebuild' = [rebuild EXCEPT !.types = Tail(@)]
    /\ emitted' = Idle
    /\ out' = <<>>
    /\ UNCHANGED <<raw, loaded, settings, rot, ret, root,
                   fcall, fs, hcall, delivery, rotated, req, store, bg, tcall>>

\* logging.py:158: return logger
RebuildReturn ==
    /\ rebuild.pc = "attach"
    /\ rebuild.types = <<>>
    /\ rebuild' = NoRebuild
    /\ UNCHANGED <<raw, loaded, settings, rot, ret, loggers, root, nextId, emitted, out,
                   fcall, fs, hcall, delivery, rotated, req, store, bg, tcall>>

RebuildInputs ==
    { RawRecord(lv, S_text, PyNone, PyNone, PyNone, hs) :
        lv \in {S_info, PyStr(<<"D","e","b","u","g">>)},
        hs \in {PyStr(Console), PyStr(File \o <<",">> \o Console)} }

NextRebuild ==
    \/ LoadSettings(RebuildInputs)
    \/ \E n \in Names : RebuildStart(n)
    \/ RebuildRemove
    \/ RebuildSetLevel
    \/ RebuildAttach
    \/ RebuildReturn
    \/ BasicConfig
    \/ \E n \in Names, sev \in {INFO, ERROR} : Emit(n, sev, DiskLow)

SpecRebuild == Init /\ [][NextRebuild]_vars

\* A get_logger call on the logger of the last emit is in progress
Interleaved == rebuild.pc # "idle" /\ rebuild.name = emitted.name

\* C22: an accepted emit on a logger that no get_logger call is working on
\* observes the complete handler list: one handler per entry of the list
\* get_logger iterates over, each of which writes the record once.
C22_CompleteWhenNotInterleaved ==
    (emitted.accepted /\ ~Interleaved) =>
        LET hs == loggers[emitted.name].handlers
            own == OwnLines(emitted.name)
        IN  /\ Len(hs) = Len(get_default_handlers)
            /\ \A i \in 1..Len(hs) : hs[i].kind = KindOf(get_default_handlers[i])
            /\ Len(own) = Len(hs)
            /\ \A i \in 1..Len(hs) : own[i].id = hs[i].id /\ own[i].kind = hs[i].kind

\* C22 witness: during the second get_logger call on app, after the removal
\* and before the attach, an accepted emit on app found no handler of app
\* and reached only the handlers of the root logger
C22_Witness ==
    /\ Interleaved /\ emitted.accepted /\ emitted.name = App
    /\ loggers[App].calls = 2
    /\ loggers[App].handlers = <<>>
    /\ OwnLines(App) = <<>>
    /\ Len(out) = 2


(***************************************************************************)
(* Claims about the handler objects of different loggers (checked under    *)
(* Spec)                                                                   *)
(***************************************************************************)
\* The handler objects attached to a logger: kind and object id
Attached(hs) == {<<hs[i].kind, hs[i].id>> : i \in 1..Len(hs)}

\* C23: after any sequence of get_logger calls no handler object is attached
\* to two loggers, the root logger included, nor twice to one logger.
C23_NoSharedHandler ==
    /\ Attached(loggers[App].handlers) \cap Attached(loggers[AppMw].handlers) = {}
    /\ \A n \in Names :
          /\ Attached(loggers[n].handlers) \cap Attached(root.handlers) = {}
          /\ Cardinality(Attached(loggers[n].handlers)) = Len(loggers[n].handlers)

\* C23 witness: app and app.mw both configured, one of them twice, the root
\* logger configured, and every one of them with handlers
C23_Witness ==
    /\ loggers[App].handlers # <<>> /\ loggers[AppMw].handlers # <<>>
    /\ loggers[App].calls + loggers[AppMw].calls = 3
    /\ root.handlers # <<>>

\* C24: a step get_logger(a) leaves the handler list and the level of every
\* logger with another name, of the root logger, and the settings object
\* unchanged, and leaves logger a with the level of the settings.
C24_GetLoggerFrame ==
    [][ \A a \in Names :
          GetLogger(a) =>
              /\ \A b \in Names \ {a} :
                    /\ loggers'[b].handlers = loggers[b].handlers
                    /\ loggers'[b].level = loggers[b].level
                    /\ loggers'[b].exists = loggers[b].exists
              /\ root' = root
              /\ settings' = settings /\ raw' = raw
              /\ loggers'[a].level = get_log_level_int(settings) ]_vars

\* C24 witness: get_logger(app), get_logger(app.mw), get_logger(app) in this
\* order: the last call rebuilt app while app.mw kept the handler of the
\* second call
C24_Witness ==
    /\ loggers[App].calls = 2 /\ loggers[AppMw].calls = 1
    /\ Len(loggers[App].handlers) = 1 /\ loggers[App].handlers[1].id = 3
    /\ Len(loggers[AppMw].handlers) = 1 /\ loggers[AppMw].handlers[1].id = 2


(***************************************************************************)
(* Claims about propagation (checked under SpecEmit, where an emit with no *)
(* broken destination is a plain emit)                                     *)
(***************************************************************************)
\* The number of handlers on the existing ancestors of n below the root
AncestorHandlers(n) ==
    Cardinality(UNION { {<<a, i>> : i \in 1..Len(loggers[a].handlers)} :
                            a \in ExistingAncestors(n) })

\* C25: in every step that is an accepted emit on a logger get_logger built,
\* the record is written 1 + k times in total, k being the number of
\* handlers of the root logger.
C25_OnePlusRootHandlers ==
    [][ \A n \in Names, sev \in {INFO, ERROR} :
          (EmitBroken(n, sev, DiskLow, {}) /\ isEnabledFor(n, sev)) =>
              Len(out') = 1 + Len(root.handlers) ]_vars

\* C25 amended: in every such step the record is written once by the
\* logger's own handler, once by every handler of each existing ancestor
\* and once by every handler of the root logger: 1 + a + k times, and
\* 1 + k times when no ancestor below the root has handlers.
C25_PropagatesToEveryAncestor ==
    [][ \A n \in Names, sev \in {INFO, ERROR} :
          (EmitBroken(n, sev, DiskLow, {}) /\ isEnabledFor(n, sev)) =>
              /\ Len(loggers[n].handlers) = 1
              /\ Len(SelectSeq(out', LAMBDA ln : ln.owner = n)) = 1
              /\ Len(SelectSeq(out', LAMBDA ln : ln.owner = RootName)) = Len(root.handlers)
              /\ Len(out') = 1 + AncestorHandlers(n) + Len(root.handlers)
              /\ AncestorHandlers(n) = 0 => Len(out') = 1 + Len(root.handlers) ]_vars

\* C25 witness: an accepted emit on app.mw, with app configured and the two
\* handlers of basicConfig on the root logger, written four times
C25_Witness ==
    /\ emitted.accepted /\ emitted.name = AppMw /\ delivery.broken = {}
    /\ loggers[App].exists /\ Len(root.handlers) = 2
    /\ Len(out) = 4
    /\ \E i \in 1..Len(out) : out[i].owner = App


(***************************************************************************)
(* The request middleware log_requests (log_requests.py:14-37).  The call  *)
(* runs to `await call_next(request)` and is resumed with what call_next   *)
(* did: it returned a response, raised an Exception, or raised a           *)
(* BaseException that is not an Exception (asyncio.CancelledError,         *)
(* KeyboardInterrupt), which `except Exception` does not catch.  log holds *)
(* what the call did, in order; a logging call is recorded whether or not  *)
(* the logger's level lets the record through.                             *)
(***************************************************************************)
Methods == {"GET", "POST"}
Paths == {"/todos", "/x"}
Statuses == {200, 404}
Exceptions == {"ValueError", "RuntimeError"}
BaseExceptions == {"CancelledError"}

Event(ev, r, detail) ==
    [ev |-> ev, method |-> r.method, path |-> r.path, detail |-> detail]

\* The except clause catching BaseException too
Caught_all(exc) == TRUE

\* log_requests.py:31: `except Exception` catches exc
Caught(exc) == exc \in Exceptions

\* log_requests.py:15-20: up to the await of call_next
RequestStart(id, method, path) ==
    /\ req[id].pc = "idle"
    /\ LET r == [NoRequest EXCEPT !.method = method, !.path = path]
       IN  req' = [req EXCEPT ![id] =
                     [r EXCEPT !.pc = "awaiting",
                               !.log = << Event("Request started", r, ""),
                                          Event("call_next", r, "") >>]]
    /\ UNCHANGED <<raw, loaded, settings, rot, ret, loggers, root, nextId, emitted, out,
                   fcall, fs, hcall, delivery, rotated, rebuild, store, bg, tcall>>

\* log_requests.py:20-30: call_next returned a response with the status
RequestReturned(id, status) ==
    /\ req[id].pc = "awaiting"
    /\ LET r == req[id]
       IN  req' = [req EXCEPT ![id] =
                     [r EXCEPT !.pc = "done", !.status = status, !.header = TRUE,
                               !.log = @ \o << Event("X-Process-Time", r, ""),
                                               Event("Request completed", r, "status") >>,
                               !.result = "response"]]
    /\ UNCHANGED <<raw, loaded, settings, rot, ret, loggers, root, nextId, emitted, out,
                   fcall, fs, hcall, delivery, rotated, rebuild, store, bg, tcall>>

\* log_requests.py:31-37: call_next raised exc
RequestRaised(id, exc) ==
    /\ req[id].pc = "awaiting"
    /\ LET r == req[id]
       IN  req' = [req EXCEPT ![id] =
                     [r EXCEPT !.pc = "done", !.raised = exc,
                               !.log = IF Caught(exc)
                                       THEN Append(@, Event("Request failed", r, exc))
                                       ELSE @,
                               !.result = exc]]
    /\ UNCHANGED <<raw, loaded, settings, rot, ret, loggers, root, nextId, emitted, out,
                   fcall, fs, hcall, delivery, rotated, rebuild, store, bg, tcall>>

NextRequest ==
    \/ \E id \in RequestIds, m \in Methods, p \in Paths : RequestStart(id, m, p)
    \/ \E id \in RequestIds, st \in Statuses : RequestReturned(id, st)
    \/ \E id \in RequestIds, exc \in Exceptions \cup BaseExceptions : RequestRaised(id, exc)

SpecRequest == Init /\ [][NextRequest]_vars

\* The positions of the records named ev in the log of request id
Positions(id, ev) == {i \in 1..Len(req[id].log) : req[id].log[i].ev = ev}

\* C26: in every request "Request started" is recorded before call_next is
\* invoked; once the call is over exactly one of "Request completed" and
\* "Request failed" was recorded after that: completed when call_next
\* returned, with the header set before the record and the response
\* returned, failed when call_next raised, with the same exception raised
\* to the caller.
C26_StartedThenOneOutcome ==
    \A id \in RequestIds :
        /\ req[id].pc # "idle" =>
              /\ Positions(id, "Request started") = {1}
              /\ Positions(id, "call_next") = {2}
        /\ req[id].pc = "done" =>
              /\ Cardinality(Positions(id, "Request completed")
                                \cup Positions(id, "Request failed")) = 1
              /\ req[id].raised = "none" =>
                    /\ Positions(id, "X-Process-Time") = {3}
                    /\ Positions(id, "Request completed") = {4}
                    /\ req[id].header /\ req[id].result = "response"
              /\ req[id].raised # "none" =>
                    /\ Positions(id, "Request failed") = {3}
                    /\ req[id].log[3].detail = req[id].raised
                    /\ req[id].result = req[id].raised

\* The part of C26 that holds: the same statement for requests whose
\* call_next returned or raised an Exception; a BaseException that is not
\* an Exception reaches the caller unchanged with neither record.
C26_ExceptBaseException ==
    \A id \in RequestIds :
        /\ req[id].pc # "idle" =>
              /\ Positions(id, "Request started") = {1}
              /\ Positions(id, "call_next") = {2}
        /\ req[id].pc = "done" =>
              /\ req[id].raised = "none" =>
                    /\ Positions(id, "X-Process-Time") = {3}
                    /\ Positions(id, "Request completed") = {4}
                    /\ Positions(id, "Request failed") = {}
                    /\ req[id].header /\ req[id].result = "response"
              /\ req[id].raised \in Exceptions =>
                    /\ Positions(id, "Request failed") = {3}
                    /\ Positions(id, "Request completed") = {}
                    /\ req[id].log[3].detail = req[id].raised
                    /\ req[id].result = req[id].raised
              /\ req[id].raised \in BaseExceptions =>
                    /\ Len(req[id].log) = 2
                    /\ req[id].result = req[id].raised


(***************************************************************************)
(* The todo services (main.py:290-442).  A stored todo is [oid, task]:     *)
(* the ObjectId the save gave it and its task (the other fields are set    *)
(* and copied the same way).  store.docs is the collection in the order    *)
(* Todo.find_all().to_list() returns it, which is insertion order; bg is   *)
(* the BackgroundTasks object of the request, empty when the handler       *)
(* starts.  A service call is one step.                                    *)
(***************************************************************************)
Tasks == {"a", "b"}
NoneTask == "None"

\* The ids the services are called with: below, inside and above any store
Ids == 0..(MaxTodos + 1)

\* The todo whose ObjectId counter value equals id
Lookup_by_oid(docs, id) == SelectSeq(docs, LAMBDA d : d.oid = id)

\* main.py:365-367: all_todos[id - 1] when 0 < id <= len(all_todos)
Lookup(docs, id) == IF 0 < id /\ id <= Len(docs) THEN <<docs[id]>> ELSE <<>>

\* The position of todo d in docs (0: it is not stored)
PositionOf(docs, d) ==
    IF \E i \in 1..Len(docs) : docs[i].oid = d.oid
    THEN CHOOSE i \in 1..Len(docs) : docs[i].oid = d.oid
    ELSE 0

\* todo.save() of a stored todo: the document is replaced in place
Saved(docs, d) == [i \in 1..Len(docs) |-> IF docs[i].oid = d.oid THEN d ELSE docs[i]]

\* todo.delete()
Deleted(docs, d) == SelectSeq(docs, LAMBDA x : x.oid # d.oid)

\* TodoResponse(**td) with td["id"] = id
TodoResponse(id, d) == [id |-> id, task |-> d.task]

Answer(op, id, resp) == [op |-> op, id |-> id, resp |-> resp, raised |-> FALSE]
Raise(op, id) == [op |-> op, id |-> id, resp |-> <<>>, raised |-> TRUE]

\* create_todo_service with one CreateTodoRequest (main.py:314-324); with
\* time=None the Todo constructor raises before anything is saved
CreateTodo(task, hasTime) ==
    /\ store.made < MaxTodos
    /\ IF hasTime
       THEN LET todo == [oid |-> store.made + 1, task |-> task]
            IN  /\ store' = [docs |-> Append(store.docs, todo), made |-> store.made + 1]
                /\ bg' = << [ev |-> "create", todos |-> <<todo>>] >>
                /\ tcall' = Answer("create", 0, <<TodoResponse(1, todo)>>)
       ELSE /\ store' = store
            /\ bg' = <<>>
            /\ tcall' = Raise("create", 0)
    /\ UNCHANGED <<raw, loaded, settings, rot, ret, loggers, root, nextId, emitted, out,
                   fcall, fs, hcall, delivery, rotated, rebuild, req>>

\* create_todo_service with a list of two requests (main.py:296-313)
CreateTodos(t1, t2) ==
    /\ store.made + 1 < MaxTodos
    /\ LET d1 == [oid |-> store.made + 1, task |-> t1]
           d2 == [oid |-> store.made + 2, task |-> t2]
       IN  /\ store' = [docs |-> store.docs \o <<d1, d2>>, made |-> store.made + 2]
           /\ bg' = << [ev |-> "create", todos |-> <<d1, d2>>] >>
           /\ tcall' = Answer("create_list", 0, <<TodoResponse(1, d1), TodoResponse(2, d2)>>)
    /\ UNCHANGED <<raw, loaded, settings, rot, ret, loggers, root, nextId, emitted, out,
                   fcall, fs, hcall, delivery, rotated, rebuild, req>>

\* get_todo_service (main.py:363-376)
GetTodo(id) ==
    /\ LET hit == Lookup(store.docs, id)
       IN  tcall' = Answer("get", id, IF hit # <<>> THEN <<TodoResponse(id, hit[1])>> ELSE <<>>)
    /\ bg' = <<>>
    /\ UNCHANGED <<raw, loaded, settings, rot, ret, loggers, root, nextId, emitted, out,
                   fcall, fs, hcall, delivery, rotated, rebuild, req, store>>

\* update_todo_service (main.py:379-402) with the task set to a value or to
\* None.  With None the model class either refuses the assignment (nothing
\* has happened yet), or takes it, and the TodoResponse of the answer is
\* refused after the event was scheduled and the todo saved.
UpdateTodo(id, task, validates) ==
    /\ LET hit == Lookup(store.docs, id)
       IN  IF hit = <<>>
           THEN /\ store' = store /\ bg' = <<>>
                /\ tcall' = Answer("update", id, <<>>)
           ELSE IF task = NoneTask /\ validates
           THEN /\ store' = store /\ bg' = <<>>
                /\ tcall' = Raise("update", id)
           ELSE LET todo == [hit[1] EXCEPT !.task = task]
                IN  /\ bg' = << [ev |-> "update", todos |-> <<todo>>] >>
                    /\ store' = [store EXCEPT !.docs = Saved(@, todo)]
                    /\ tcall' = IF task = NoneTask THEN Raise("update", id)
                                ELSE Answer("update", id, <<TodoResponse(id, todo)>>)
    /\ UNCHANGED <<raw, loaded, settings, rot, ret, loggers, root, nextId, emitted, out,
                   fcall, fs, hcall, delivery, rotated, rebuild, req>>

\* replace_todo_service (main.py:405-427)
ReplaceTodo(id, task) ==
    /\ LET hit == Lookup(store.docs, id)
       IN  IF hit = <<>>
           THEN /\ store' = store /\ bg' = <<>>
                /\ tcall' = Answer("replace", id, <<>>)
           ELSE LET todo == [hit[1] EXCEPT !.task = task]
                IN  /\ bg' = << [ev |-> "update", todos |-> <<todo>>] >>
                    /\ store' = [store EXCEPT !.docs = Saved(@, todo)]
                    /\ tcall' = Answer("replace", id, <<TodoResponse(id, todo)>>)
    /\ UNCHANGED <<raw, loaded, settings, rot, ret, loggers, root, nextId, emitted, out,
                   fcall, fs, hcall, delivery, rotated, rebuild, req>>

\* delete_todo_service (main.py:430-442)
DeleteTodo(id) ==
    /\ LET hit == Lookup(store.docs, id)
       IN  IF hit = <<>>
           THEN /\ store' = store /\ bg' = <<>>
                /\ tcall' = Answer("delete", id, <<>>)
           ELSE /\ store' = [store EXCEPT !.docs = Deleted(@, hit[1])]
                /\ bg' = << [ev |-> "delete", todos |-> hit] >>
                /\ tcall' = Answer("delete", id, << [id |-> id, task |-> "deleted"] >>)
    /\ UNCHANGED <<raw, loaded, settings, rot, ret, loggers, root, nextId, emitted, out,
                   fcall, fs, hcall, delivery, rotated, rebuild, req>>

NextTodos ==
    \/ \E task \in Tasks, hasTime \in BOOLEAN : CreateTodo(task, hasTime)
    \/ \E t1 \in Tasks, t2 \in Tasks : CreateTodos(t1, t2)
    \/ \E id \in Ids : GetTodo(id)
    \/ \E id \in Ids, task \in Tasks : UpdateTodo(id, task, TRUE)
    \/ \E id \in Ids, v \in BOOLEAN : UpdateTodo(id, NoneTask, v)
    \/ \E id \in Ids, task \in Tasks : ReplaceTodo(id, task)
    \/ \E id \in Ids : DeleteTodo(id)

SpecTodos == Init /\ [][NextTodos]_vars

InRange(id) == 1 <= id /\ id <= Len(store.docs)

\* A service step with an id outside the store: None, nothing stored
\* changes, nothing is scheduled
Missed == tcall'.resp = <<>> /\ ~tcall'.raised /\ store' = store /\ bg' = <<>>

\* Nothing but the todo at position id is different after the step
OnlyAt(id) ==
    /\ Len(store'.docs) = Len(store.docs)
    /\ \A i \in 1..Len(store.docs) : i # id => store'.docs[i] = store.docs[i]
    /\ store'.docs[id].oid = store.docs[id].oid

\* C27: in every service step, get, update, replace and delete with
\* 1 <= id <= number of stored todos act on the todo at position id of the
\* find_all order, and with any other id answer None, change nothing and
\* schedule nothing; a single create that answers, answers id 1 and puts
\* the todo at the end of the order, so that the answered id designates it
\* only if the store was empty; a delete at position i moves the todo at
\* every later position j to position j - 1.
C27_IdsArePositions ==
    [][ /\ \A id \in Ids :
              /\ GetTodo(id) =>
                    IF InRange(id)
                    THEN tcall'.resp = <<[id |-> id, task |-> store.docs[id].task]>>
                    ELSE Missed
              /\ \A task \in Tasks :
                    /\ (UpdateTodo(id, task, TRUE) \/ ReplaceTodo(id, task)) =>
                          IF InRange(id)
                          THEN /\ OnlyAt(id)
                               /\ store'.docs[id].task = task
                               /\ tcall'.resp = <<[id |-> id, task |-> task]>>
                               /\ Len(bg') = 1 /\ bg'[1].ev = "update"
                               /\ bg'[1].todos[1].oid = store.docs[id].oid
                          ELSE Missed
              /\ \A v \in BOOLEAN :
                    UpdateTodo(id, NoneTask, v) =>
                        IF InRange(id) THEN OnlyAt(id) /\ tcall'.raised ELSE Missed
              /\ DeleteTodo(id) =>
                    IF InRange(id)
                    THEN /\ Len(store'.docs) = Len(store.docs) - 1
                         /\ \A j \in 1..Len(store.docs) :
                               /\ j < id => store'.docs[j] = store.docs[j]
                               /\ j > id => store'.docs[j - 1] = store.docs[j]
                         /\ Len(bg') = 1 /\ bg'[1].ev = "delete"
                         /\ bg'[1].todos = <<store.docs[id]>>
                         /\ tcall'.resp # <<>>
                    ELSE Missed
        /\ \A task \in Tasks :
              CreateTodo(task, TRUE) =>
                  /\ tcall'.resp = <<[id |-> 1, task |-> task]>>
                  /\ Len(store'.docs) = Len(store.docs) + 1
                  /\ SubSeq(store'.docs, 1, Len(store.docs)) = store.docs
                  /\ store'.docs[Len(store'.docs)].task = task
                  /\ \A i \in 1..Len(store.docs) :
                        store.docs[i].oid # store'.docs[Len(store'.docs)].oid
                  /\ (PositionOf(store'.docs, store'.docs[Len(store'.docs)])
                          = tcall'.resp[1].id) <=> store.docs = <<>> ]_vars

\* C27 witness: a create answered id 1 for a todo stored at position 3, behind
\* the two todos that were there
C27_Witness ==
    /\ tcall.op = "create" /\ tcall.resp # <<>> /\ tcall.resp[1].id = 1
    /\ Len(store.docs) = 3
    /\ bg # <<>> /\ bg[1].todos[1].oid = store.docs[3].oid
    /\ store.docs[1].oid # store.docs[3].oid

\* The shift of C27 reached: after a delete at position 1 the todo created
\* third is at position 2
C27_ShiftReached ==
    /\ tcall.op = "delete" /\ tcall.id = 1 /\ tcall.resp # <<>>
    /\ Len(store.docs) = 2 /\ store.docs[2].oid = 3

\* The miss of C27 reached: an update with an id above the store
C27_MissReached ==
    /\ tcall.op = "update" /\ tcall.id = 3 /\ tcall.resp = <<>> /\ ~tcall.raised
    /\ Len(store.docs) = 2 /\ bg = <<>>

====
